---------------------------- MODULE Spec2Model ----------------------------
(***************************************************************************)
(* A model of the runtime that chameleon emits for a grammar: the walk,    *)
(* the xorshift PRNG, the per-non-terminal mutation functions instantiated *)
(* from templates/full/mutations.c, the number-set generators and the      *)
(* public entry points.                                                    *)
(*                                                                         *)
(* size_t values are 64 bits wide.  A size_t is held as its signed         *)
(* residue modulo 2^64: a negative integer x stands for the word 2^64 + x. *)
(* Addition and subtraction are then the machine's, and comparisons go     *)
(* through ULt.  The PRNG word is held as four 16-bit limbs.               *)
(***************************************************************************)
EXTENDS Integers, Sequences, FiniteSets, TLC

(***************************************************************************)
(* Bounds of the model.                                                    *)
(***************************************************************************)
MaxWalkCap == 4
MaxOutCap == 4
MaxCalls == 2
MaxSeed == 1
MaxRand == 3
MaxGarbage == 1

(***************************************************************************)
(* 64-bit words as four 16-bit limbs, least significant first.             *)
(***************************************************************************)
LimbBase == 65536

RECURSIVE XorBits(_, _, _)
XorBits(a, b, n) ==
    IF n = 0 THEN 0
    ELSE ((a + b) % 2) + 2 * XorBits(a \div 2, b \div 2, n - 1)

\* The xor of two 4-bit numbers, tabulated: XorTable[a + 1][b + 1].
RECURSIVE XorRow(_, _)
XorRow(a, b) == IF b > 15 THEN << >> ELSE << XorBits(a, b, 4) >> \o XorRow(a, b + 1)

RECURSIVE XorRows(_)
XorRows(a) == IF a > 15 THEN << >> ELSE << XorRow(a, 0) >> \o XorRows(a + 1)

XorTable == XorRows(0)

Xor4(a, b) == XorTable[(a % 16) + 1][(b % 16) + 1]

\* The xor of two numbers of n hexadecimal digits, four bits at a time.
RECURSIVE XorDigits(_, _, _)
XorDigits(a, b, n) ==
    IF n = 0 THEN 0 ELSE Xor4(a, b) + (16 * XorDigits(a \div 16, b \div 16, n - 1))

\* The xor of two limbs.
Xor16(a, b) == XorDigits(a, b, 4)

\* The xor of the limbs i.. of two words.
RECURSIVE XorLimbs(_, _, _)
XorLimbs(x, y, i) ==
    IF i > 4 THEN << >> ELSE << Xor16(x[i], y[i]) >> \o XorLimbs(x, y, i + 1)

Xor64(x, y) == XorLimbs(x, y, 1)

\* x << 13: each limb takes its own low 3 bits, shifted up, and the 13 high
\* bits of the limb below.
Shl13Limb(lo, hi) == ((hi * 8192) % LimbBase) + (lo \div 8)

Shl13(x) ==
    << Shl13Limb(0, x[1]), Shl13Limb(x[1], x[2]),
       Shl13Limb(x[2], x[3]), Shl13Limb(x[3], x[4]) >>

\* x >> 7: each limb takes its own high 9 bits and the low 7 bits of the limb above.
Shr7Limb(lo, hi) == (lo \div 128) + ((hi % 128) * 512)

Shr7(x) ==
    << Shr7Limb(x[1], x[2]), Shr7Limb(x[2], x[3]), Shr7Limb(x[3], x[4]), Shr7Limb(x[4], 0) >>

\* x << 17: one whole limb and one bit.
Shl1Limb(lo, hi) == ((hi * 2) % LimbBase) + (lo \div 32768)

Shl17(x) ==
    << 0, Shl1Limb(0, x[1]), Shl1Limb(x[1], x[2]), Shl1Limb(x[2], x[3]) >>

\* The compile-time default seed 1739639165216539016 = 0x1824709a9016c188.
CHAMELEON_SEED == << 49544, 36886, 28826, 6180 >>

\* The word a small integer denotes.
Word(n) == << (n % LimbBase), 0, 0, 0 >>

\* internal_random: one xorshift step; the new state is also the value returned.
\* The shifts of the generator's three steps: x << 13, x >> 7, x << 17.
Shift(x, i) == IF i = 1 THEN Shl13(x) ELSE IF i = 2 THEN Shr7(x) ELSE Shl17(x)

\* x ^= x << 13; x ^= x >> 7; x ^= x << 17, from step i on.
RECURSIVE xorshift(_, _)
xorshift(x, i) == IF i > 3 THEN x ELSE xorshift(Xor64(x, Shift(x, i)), i + 1)

internal_random(x) == xorshift(x, 1)

\* word % n for 0 < n < 2^15
Mod64(x, n) ==
    LET m4 == x[4] % n
        m3 == ((m4 * LimbBase) + x[3]) % n
        m2 == ((m3 * LimbBase) + x[2]) % n
    IN  ((m2 * LimbBase) + x[1]) % n

(***************************************************************************)
(* size_t arithmetic on signed residues.                                   *)
(***************************************************************************)
\* a < b as unsigned 64-bit words
ULt(a, b) == IF (a >= 0) = (b >= 0) THEN a < b ELSE a >= 0

(***************************************************************************)
(* Grammars.  A grammar is what the templates are instantiated with: per   *)
(* non-terminal its rule set (a sequence of rules, each a sequence of      *)
(* symbols) and its is_triangular flag, the number sets, and the entry     *)
(* non-terminal.  Bytes are small integers.                                *)
(***************************************************************************)
Bytes(b) == [kind |-> "bytes", bytes |-> b]
Numberset(i) == [kind |-> "numberset", id |-> i]
NonTerminal(n) == [kind |-> "nonterm", id |-> n]

\* S -> epsilon | 'a' S   (rule 0 is the empty rule, rule 1 is 'a' S)
GrammarAS ==
    [entry |-> 1,
     rules |-> << << << >>, << Bytes(<<97>>), NonTerminal(1) >> >> >>,
     triangular |-> << FALSE >>,
     numbersets |-> << >>]

\* In GNF: S -> 'z' | 'a' A B B,  A -> 'x' C,  C -> 'c' | 'd',  B -> 'b' | 'e' | 'f'
GrammarSeq ==
    [entry |-> 1,
     rules |-> << << << Bytes(<<122>>) >>,
                     << Bytes(<<97>>), NonTerminal(2), NonTerminal(4), NonTerminal(4) >> >>,
                  << << Bytes(<<120>>), NonTerminal(3) >> >>,
                  << << Bytes(<<99>>) >>, << Bytes(<<100>>) >> >>,
                  << << Bytes(<<98>>) >>, << Bytes(<<101>>) >>, << Bytes(<<102>>) >> >> >>,
     triangular |-> << FALSE, FALSE, FALSE, FALSE >>,
     numbersets |-> << >>]

\* Rules with several terminals, a terminal after a non-terminal, a number set
\* and an empty single rule:
\* A -> 'p' 'q' E | <u8 in [0..1] u [10..11]> B 'd',  B -> 'b',  E -> epsilon
GrammarMix ==
    [entry |-> 1,
     rules |-> << << << Bytes(<<112>>), Bytes(<<113>>), NonTerminal(3) >>,
                     << Numberset(1), NonTerminal(2), Bytes(<<100>>) >> >>,
                  << << Bytes(<<98>>) >> >>,
                  << << >> >> >>,
     triangular |-> << FALSE, FALSE, FALSE >>,
     numbersets |-> << [width |-> 1, set |-> << <<0, 1>>, <<10, 11>> >>] >>]

\* T -> 't' T | epsilon, drawn with TRIANGULAR_RANDOM
GrammarTri ==
    [entry |-> 1,
     rules |-> << << << Bytes(<<116>>), NonTerminal(1) >>, << >> >> >>,
     triangular |-> << TRUE >>,
     numbersets |-> << >>]

\* In GNF, recursive without end and without an empty rule: S -> 'a' S
GrammarLoop ==
    [entry |-> 1,
     rules |-> << << << Bytes(<<97>>), NonTerminal(1) >> >> >>,
     triangular |-> << FALSE >>,
     numbersets |-> << >>]

\* The entry non-terminal has the empty rule only: S -> epsilon
GrammarEps ==
    [entry |-> 1,
     rules |-> << << << >> >> >>,
     triangular |-> << FALSE >>,
     numbersets |-> << >>]

\* S -> 'a' S | epsilon   (rule 0 is 'a' S, rule 1 is the empty rule)
GrammarSA ==
    [entry |-> 1,
     rules |-> << << << Bytes(<<97>>), NonTerminal(1) >>, << >> >> >>,
     triangular |-> << FALSE >>,
     numbersets |-> << >>]

\* Number sets of one range: S -> <u8 in [5..7]> F,  F -> <u64, any value>.
\* The end of the second range, 2^64 - 1, is the residue -1.
GrammarFull ==
    [entry |-> 1,
     rules |-> << << << Numberset(1), NonTerminal(2) >> >>,
                  << << Numberset(2) >> >> >>,
     triangular |-> << FALSE, FALSE >>,
     numbersets |-> << [width |-> 1, set |-> << <<5, 7>> >>],
                       [width |-> 8, set |-> << <<0, -1>> >>] >>]

Grammars ==
    << GrammarAS, GrammarSeq, GrammarMix, GrammarTri, GrammarLoop, GrammarEps, GrammarSA,
       GrammarFull >>

\* The grammars run on the small walks and buffers, and those run on the wide
\* ones.
SmallGrammars == { i \in 1..Len(Grammars) : Grammars[i] \notin {GrammarSA, GrammarFull} }
WideGrammars ==
    { i \in 1..Len(Grammars) : Grammars[i] \in {GrammarAS, GrammarSA, GrammarMix, GrammarFull} }

RECURSIVE MaxOver(_, _)
MaxOver(f, n) == IF n = 0 THEN 0
                 ELSE LET m == MaxOver(f, n - 1) IN IF f[n] > m THEN f[n] ELSE m

\* grammar.max_num_of_rules()
max_num_of_rules(g) == MaxOver([n \in 1..Len(g.rules) |-> Len(g.rules[n])], Len(g.rules))

\* set.has_no_symbols()
has_no_symbols(set) == \A i \in 1..Len(set) : set[i] = << >>

\* TRIANGULAR_LOOKUP_TABLE: for i in 1..=max_num_of_rules, i entries of value i - 1.
RECURSIVE TriangularRow(_, _)
TriangularRow(v, count) == IF count = 0 THEN << >> ELSE << v >> \o TriangularRow(v, count - 1)

RECURSIVE TriangularRows(_, _)
TriangularRows(i, max) ==
    IF i > max THEN << >> ELSE TriangularRow(i - 1, i) \o TriangularRows(i + 1, max)

TRIANGULAR_LOOKUP_TABLE(g) == TriangularRows(1, max_num_of_rules(g))

(***************************************************************************)
(* The output buffer.  The caller's allocation holds MemSize bytes, enough *)
(* for every write the bounded walk can make; output_capacity is at most   *)
(* MaxOutCap <= MemSize.  Offset o of the buffer is element o + 1.         *)
(***************************************************************************)
MaxRuleBytes == 2
MemSize == MaxOutCap + (MaxRuleBytes * (MaxWalkCap + 1))

RECURSIVE memcpy(_, _, _, _)
memcpy(out, off, bytes, i) ==
    IF i > Len(bytes) THEN out
    ELSE memcpy(IF off + i >= 1 /\ off + i <= Len(out)
                THEN [out EXCEPT ![off + i] = bytes[i]] ELSE out,
                off, bytes, i + 1)

\* The `width` low bytes of a value, least significant first (native order).
RECURSIVE ValueBytes(_, _)
ValueBytes(value, width) ==
    IF width = 0 THEN << >>
    ELSE << value % 256 >> \o ValueBytes(value \div 256, width - 1)

(***************************************************************************)
(* The state a call works on:                                              *)
(*   steps, step      the walk's step storage and *step                    *)
(*   out              the output buffer                                    *)
(*   rs               rand_state                                           *)
(*   r                the value returned by the function that just ended   *)
(*   trap             the call has ended in a trap                         *)
(* and what the call did, for the properties to read:                      *)
(*   unreachable      a default: __builtin_unreachable() branch was taken  *)
(*   tableoob         TRIANGULAR_LOOKUP_TABLE was read past its end        *)
(*   oob              a byte was written at an offset >= output_capacity   *)
(*   underflow        output_length -= x wrapped around                    *)
(*   nofit            a terminal did not fit (sizeof > output_length)      *)
(*   exhausted        a non-terminal was entered with *step >= capacity    *)
(*   divzero          a number set took a remainder modulo 0               *)
(*   drawn            the number-set values drawn with a defined result,   *)
(*                    in order, each with the id of its number set         *)
(*   ub               the outcome of undefined behaviour the call ran into *)
(*   log              the entries that consumed a step, in order: position *)
(*                    s, non-terminal nt, whether the position was freshly *)
(*                    chosen, the rule index used, the output offset on    *)
(*                    entry, and whether the function dispatches           *)
(* The context cx of a call holds what stays fixed: the grammar g, length, *)
(* capacity, output_capacity and the outcome ub of undefined behaviour.    *)
(***************************************************************************)

\* end - start + 1 of a range, in 64-bit arithmetic on signed residues
\* (start and end differ by less than 2^31, or the range is the whole domain).
range_modulus(range) == (range[2] - range[1]) + 1

\* start + (x % (end - start + 1)).  A remainder modulo 0 is undefined: the
\* build traps, or goes on with some value.
range_draw(cx, range, x) ==
    IF range_modulus(range) = 0
    THEN [value |-> cx.ub.read, divzero |-> TRUE, trap |-> cx.ub.jump = "trap"]
    ELSE [value |-> range[1] + Mod64(x, range_modulus(range)),
          divzero |-> FALSE, trap |-> FALSE]

\* _numberset_<id>: the value drawn and the PRNG state after it.
numberset_draw(cx, ns, rs) ==
    IF Len(ns.set) <= 1
    THEN LET x == internal_random(rs)
             d == range_draw(cx, ns.set[1], x)
         IN  [value |-> d.value, rs |-> x, divzero |-> d.divzero, trap |-> d.trap]
    ELSE LET x1 == internal_random(rs)
             range == ns.set[Mod64(x1, Len(ns.set)) + 1]
             x2 == internal_random(x1)
             d == range_draw(cx, range, x2)
         IN  [value |-> d.value, rs |-> x2, divzero |-> d.divzero, trap |-> d.trap]

\* sizeof of a terminal symbol
SymbolSize(g, sym) ==
    IF sym.kind = "bytes" THEN Len(sym.bytes) ELSE g.numbersets[sym.id].width

\* Some byte of [off, off + size) lies at or past output_capacity.
PastCapacity(cx, off, size) == size > 0 /\ ULt(cx.outcap, off + size)

\* write_terminal without the write: the buffer is left as it was.
write_terminal_nothing(cx, sym, st, off) == st

\* The write of a terminal at offset off: memcpy of the blob, or _numberset_<id>.
write_terminal(cx, sym, st, off) ==
    LET size == SymbolSize(cx.g, sym)
        st1 == [st EXCEPT !.oob = @ \/ PastCapacity(cx, off, size)]
    IN  IF sym.kind = "bytes"
        THEN [st1 EXCEPT !.out = memcpy(@, off, sym.bytes, 1)]
        ELSE LET d == numberset_draw(cx, cx.g.numbersets[sym.id], st.rs)
             IN  IF d.trap
                 THEN [st1 EXCEPT !.rs = d.rs, !.divzero = TRUE, !.trap = TRUE, !.r = 0]
                 ELSE [st1 EXCEPT !.out = memcpy(@, off, ValueBytes(d.value, size), 1),
                                  !.rs = d.rs,
                                  !.divzero = @ \/ d.divzero,
                                  !.drawn = IF d.divzero THEN @
                                            ELSE Append(@, [id |-> sym.id,
                                                            value |-> d.value])]

\* walk_exhausted with the test off by one: a full walk takes one more step.
walk_exhausted_late(s, capacity) == s > capacity

\* s >= capacity: the walk has no slot left
walk_exhausted(s, capacity) == s >= capacity

\* is_mutate with the last replayed position chosen afresh as well
is_mutate_early(s, length) == s + 1 >= length

\* is_mutate with the first fresh position replayed as well
is_mutate_late(s, length) == s > length

\* is_mutate with no position replayed
is_mutate_always(s, length) == s >= 0

\* mutate = (s >= length): position s is freshly chosen, not replayed
is_mutate(s, length) == s >= length

\* The value a read of TRIANGULAR_LOOKUP_TABLE[idx] yields.
table_read(cx, idx) ==
    LET table == TRIANGULAR_LOOKUP_TABLE(cx.g)
    IN  IF idx < Len(table) THEN table[idx + 1] ELSE cx.ub.read

\* The index TRIANGULAR_RANDOM(n) reads: internal_random() % ((n * (n + 1)) >> 1)
triangular_index(n, x) == Mod64(x, (n * (n + 1)) \div 2)

\* TRIANGULAR_RANDOM(n)
TRIANGULAR_RANDOM(cx, n, x) == table_read(cx, triangular_index(n, x))

\* The rule index a fresh dispatch over k rules draws from PRNG value x.
draw_rule(cx, triangular, k, x) ==
    IF triangular THEN TRIANGULAR_RANDOM(cx, (k * (k + 1)) \div 2, x) ELSE Mod64(x, k)

RECURSIVE mutate_nonterm(_, _, _, _, _)
RECURSIVE run_symbols(_, _, _, _, _, _, _, _)

\* The symbols rule[i..] of the selected rule, then the return of the function.
run_symbols(cx, rule, i, st, off, olen, orig, mutate) ==
    IF st.trap THEN st
    ELSE IF i > Len(rule) THEN [st EXCEPT !.r = off - orig]
    ELSE LET sym == rule[i]
             last == (i = Len(rule))
         IN  IF sym.kind = "nonterm"
             THEN LET st2 == mutate_nonterm(cx, sym.id, st, off, olen)
                      r == st2.r
                      st3 == [st2 EXCEPT !.underflow = @ \/ (~last /\ ULt(olen, r))]
                  IN  run_symbols(cx, rule, i + 1, st3, off + r,
                                  IF last THEN olen ELSE olen - r, orig, mutate)
             ELSE LET size == SymbolSize(cx.g, sym)
                  IN  IF mutate /\ ULt(olen, size)
                      THEN [st EXCEPT !.r = olen, !.nofit = TRUE]
                      ELSE LET st2 == IF mutate THEN write_terminal(cx, sym, st, off) ELSE st
                               st3 == [st2 EXCEPT !.underflow =
                                                     @ \/ (~last /\ ULt(olen, size))]
                           IN  run_symbols(cx, rule, i + 1, st3, off + size,
                                           IF last THEN olen ELSE olen - size, orig, mutate)

\* _mutate_nonterm_<n>(steps, length, capacity, step, output, output_length)
mutate_nonterm(cx, n, st, off, olen) ==
    LET set == cx.g.rules[n]
        s == st.step
    IN  IF Len(set) <= 1
        THEN IF has_no_symbols(set)
             THEN IF s < cx.capacity
                  THEN [st EXCEPT !.step = s + 1, !.r = 0,
                                  !.log = Append(@, [s |-> s, nt |-> n,
                                                     fresh |-> is_mutate(s, cx.length),
                                                     rule |-> 0, off |-> off, disp |-> FALSE])]
                  ELSE [st EXCEPT !.r = 0, !.exhausted = TRUE]
             ELSE IF walk_exhausted(s, cx.capacity)
                  THEN [st EXCEPT !.r = 0, !.exhausted = TRUE]
                  ELSE LET mutate == is_mutate(s, cx.length)
                           st1 == [st EXCEPT !.step = s + 1,
                                     !.log = Append(@, [s |-> s, nt |-> n, fresh |-> mutate,
                                                        rule |-> 0, off |-> off,
                                                        disp |-> FALSE])]
                       IN  run_symbols(cx, set[1], 1, st1, off, olen, off, mutate)
        ELSE IF walk_exhausted(s, cx.capacity)
             THEN [st EXCEPT !.r = 0, !.exhausted = TRUE]
             ELSE LET mutate == is_mutate(s, cx.length)
                      x == internal_random(st.rs)
                      k == Len(set)
                      tri == cx.g.triangular[n]
                      rule == IF mutate THEN draw_rule(cx, tri, k, x) ELSE st.steps[s + 1]
                      past == mutate /\ tri
                              /\ triangular_index((k * (k + 1)) \div 2, x)
                                    >= Len(TRIANGULAR_LOOKUP_TABLE(cx.g))
                      st1 == [st EXCEPT !.step = s + 1,
                                !.rs = IF mutate THEN x ELSE @,
                                !.steps = IF mutate THEN [@ EXCEPT ![s + 1] = rule] ELSE @,
                                !.tableoob = @ \/ past,
                                !.log = Append(@, [s |-> s, nt |-> n, fresh |-> mutate,
                                                   rule |-> rule, off |-> off,
                                                   disp |-> TRUE])]
                  IN  IF rule < k
                      THEN run_symbols(cx, set[rule + 1], 1, st1, off, olen, off, mutate)
                      ELSE IF cx.ub.jump = "trap"
                      THEN [st1 EXCEPT !.unreachable = TRUE, !.trap = TRUE, !.r = 0]
                      ELSE run_symbols(cx, set[1], 1,
                                       [st1 EXCEPT !.unreachable = TRUE],
                                       off, olen, off, mutate)

(***************************************************************************)
(* The program's state.                                                    *)
(*   grammar     the grammar the module was emitted for (index in Grammars)*)
(*   walk        the ChameleonWalk: the pointer steps (ptr) and the block  *)
(*               it points to (steps), length, capacity                    *)
(*   heap        the blocks malloc has handed out and free has not taken   *)
(*               back                                                      *)
(*   rand_state  the PRNG word                                             *)
(*   mem         the caller's output buffer, as the last call left it      *)
(*   pc          "ready", or "crashed" once a call has trapped             *)
(*   calls       the number of generate and mutate calls made              *)
(*   last        a record of the last generate or mutate call: its         *)
(*               arguments, the walk before it (pre), the PRNG state it    *)
(*               started from (rs), what the call before it started from,  *)
(*               returned, logged and left in the buffer (prev_...), and   *)
(*               what the call did                                         *)
(***************************************************************************)
VARIABLES grammar, walk, heap, rand_state, mem, pc, calls, last

vars == << grammar, walk, heap, rand_state, mem, pc, calls, last >>

WalkCaps == 0..MaxWalkCap
OutCaps == 0..MaxOutCap

\* What undefined behaviour may yield: the value a read past the lookup table
\* finds or a remainder modulo 0 leaves, and where a switch on an uncovered
\* rule index goes (a trap, or the code of the first case) or whether the
\* remainder traps.
UBChoices == [read : 0..MaxGarbage, jump : {"trap", "first"}]
UBDefault == [read |-> 0, jump |-> "trap"]

ZeroMem == [i \in 1..MemSize |-> 0]

\* What a call starts from: *step = from, nothing done yet.
call_state(w, from, rs, buf, ub) ==
    [steps |-> w.steps, step |-> from, out |-> buf, rs |-> rs, r |-> 0,
     trap |-> FALSE, unreachable |-> FALSE, tableoob |-> FALSE,
     oob |-> FALSE, underflow |-> FALSE, nofit |-> FALSE,
     exhausted |-> FALSE, divzero |-> FALSE, log |-> << >>, drawn |-> << >>,
     ub |-> ub]

\* entry_call without walk->length = 0: the walk goes on where it ended.
entry_call_resume(g, w, length, rs, buf, outcap, ub) ==
    mutate_nonterm([g |-> g, length |-> length, capacity |-> w.capacity,
                    outcap |-> outcap, ub |-> ub],
                   g.entry, call_state(w, w.length, rs, buf, ub), 0, outcap)

\* The entry non-terminal's function on the walk, with *step = walk.length = 0.
entry_call(g, w, length, rs, buf, outcap, ub) ==
    mutate_nonterm([g |-> g, length |-> length, capacity |-> w.capacity,
                    outcap |-> outcap, ub |-> ub],
                   g.entry, call_state(w, 0, rs, buf, ub), 0, outcap)

\* truncation_point without the reduction modulo the walk length
truncation_point_raw(rnd, len) == rnd

\* truncation_point with the walk length itself among the outcomes
truncation_point_inclusive(rnd, len) == rnd % (len + 1)

\* length = random() % walk->length, or 0 for an empty walk
truncation_point(rnd, len) == IF len > 0 THEN rnd % len ELSE 0

chameleon_generate(g, w, rs, buf, outcap, ub) == entry_call(g, w, 0, rs, buf, outcap, ub)

chameleon_mutate(g, w, rnd, rs, buf, outcap, ub) ==
    entry_call(g, w, truncation_point(rnd, w.length), rs, buf, outcap, ub)

\* The entry non-terminal's function with length kept at walk.length, as
\* chameleon_mutate calls it when the truncation is left out: every recorded
\* position is replayed.
replay(g, w, rs, buf, outcap, ub) == entry_call(g, w, w.length, rs, buf, outcap, ub)

\* chameleon_seed: zero installs the default seed
chameleon_seed(new_seed) == IF new_seed = 0 THEN CHAMELEON_SEED ELSE Word(new_seed)

\* The block malloc returns to chameleon_init.
StepsBlock == 1

\* chameleon_init: malloc'ed step storage holds arbitrary values
chameleon_init(capacity, fill) ==
    [ptr |-> StepsBlock, steps |-> [i \in 1..capacity |-> fill],
     length |-> 0, capacity |-> capacity]

\* The null pointer: all bits zero.
NULL == 0

\* chameleon_destroy without the memset: the walk keeps its fields.
chameleon_destroy_free_only(w) == w

\* chameleon_destroy: after free(walk->steps) the struct is zeroed.
chameleon_destroy(w) == [ptr |-> NULL, steps |-> << >>, length |-> 0, capacity |-> 0]

NoCall ==
    [op |-> "init", ret |-> 0, outcap |-> 0, k |-> 0, tied |-> TRUE,
     pre |-> chameleon_init(0, 0), prev_op |-> "init", prev_ret |-> 0, prev_outcap |-> 0,
     prev_mem |-> ZeroMem, prev_complete |-> FALSE, prev_log |-> << >>,
     trap |-> FALSE, unreachable |-> FALSE, tableoob |-> FALSE, oob |-> FALSE,
     underflow |-> FALSE, nofit |-> FALSE, exhausted |-> FALSE, log |-> << >>,
     divzero |-> FALSE, drawn |-> << >>,
     rs |-> CHAMELEON_SEED, ub |-> UBDefault,
     prev_rs |-> CHAMELEON_SEED, prev_ub |-> UBDefault]

Init ==
    /\ grammar \in SmallGrammars
    /\ \E capacity \in WalkCaps, fill \in 0..MaxGarbage : walk = chameleon_init(capacity, fill)
    /\ heap = {StepsBlock}
    /\ rand_state = CHAMELEON_SEED
    /\ mem = ZeroMem
    /\ pc = "ready"
    /\ calls = 0
    /\ last = NoCall

\* The call recorded in c carried its derivation through: no terminal failed to
\* fit, the walk was not exhausted, and no dispatch left the switch's cases.
Complete(c) == ~c.nofit /\ ~c.exhausted /\ ~c.unreachable /\ ~c.trap

\* walk_after with the step storage moved to a block twice the size.
walk_after_moved(w, res) ==
    [w EXCEPT !.ptr = @ + 1, !.capacity = 2 * @, !.steps = res.steps, !.length = res.step]

\* The walk after a call: the entry function was handed walk->steps and
\* walk->capacity by value and &walk->length; it wrote through the first and
\* the last.
walk_after(w, res) == [w EXCEPT !.steps = res.steps, !.length = res.step]

\* The part of the undefined behaviour's outcome that a call ran into: the
\* value read past the table if it read there, the target of the jump if
\* it jumped; both for a remainder modulo 0.
ub_taken(res) ==
    [read |-> IF res.tableoob \/ res.divzero THEN res.ub.read ELSE UBDefault.read,
     jump |-> IF res.unreachable \/ res.divzero THEN res.ub.jump ELSE UBDefault.jump]

\* The state after a call that ended with res.
Return(op, call, k, outcap, tied) ==
    \E res \in {call} :
       /\ walk' = walk_after(walk, res)
       /\ rand_state' = res.rs
       /\ mem' = res.out
       /\ pc' = IF res.trap THEN "crashed" ELSE "ready"
       /\ calls' = calls + 1
       /\ last' = [op |-> op, ret |-> res.r, outcap |-> outcap, k |-> k, tied |-> tied,
                   pre |-> walk, prev_op |-> last.op, prev_ret |-> last.ret,
                   prev_outcap |-> last.outcap, prev_mem |-> mem,
                   prev_complete |-> Complete(last), prev_log |-> last.log,
                   trap |-> res.trap, unreachable |-> res.unreachable,
                   tableoob |-> res.tableoob, oob |-> res.oob, underflow |-> res.underflow,
                   nofit |-> res.nofit, exhausted |-> res.exhausted, log |-> res.log,
                   divzero |-> res.divzero, drawn |-> res.drawn,
                   rs |-> rand_state, ub |-> ub_taken(res),
                   prev_rs |-> last.rs, prev_ub |-> last.ub]
       /\ UNCHANGED << grammar, heap >>

\* Undefined behaviour is a choice only in a call that runs into it.
UsesUB(res) == res.unreachable \/ res.tableoob \/ res.divzero

Generate ==
    /\ pc = "ready"
    /\ calls < MaxCalls
    /\ \E outcap \in OutCaps :
          \E probe \in {chameleon_generate(Grammars[grammar], walk, rand_state, mem,
                                           outcap, UBDefault)} :
              \E ub \in IF UsesUB(probe) THEN UBChoices ELSE {UBDefault} :
                 Return("generate",
                        IF ub = UBDefault THEN probe
                        ELSE chameleon_generate(Grammars[grammar], walk, rand_state, mem,
                                                outcap, ub),
                        0, outcap, TRUE)

\* The caller hands mutate the buffer the walk's output is in, or another one.
Mutate ==
    /\ pc = "ready"
    /\ calls < MaxCalls
    /\ \E outcap \in OutCaps, rnd \in 0..MaxRand, tied \in BOOLEAN :
          \E buf \in {IF tied THEN mem ELSE ZeroMem} :
          \E probe \in {chameleon_mutate(Grammars[grammar], walk, rnd, rand_state, buf,
                                         outcap, UBDefault)} :
              \E ub \in IF UsesUB(probe) THEN UBChoices ELSE {UBDefault} :
                 Return("mutate",
                        IF ub = UBDefault THEN probe
                        ELSE chameleon_mutate(Grammars[grammar], walk, rnd, rand_state, buf,
                                              outcap, ub),
                        truncation_point(rnd, walk.length), outcap, tied)

Seed ==
    /\ pc = "ready"
    /\ calls < MaxCalls
    /\ \E new_seed \in 0..MaxSeed : rand_state' = chameleon_seed(new_seed)
    /\ UNCHANGED << grammar, walk, heap, mem, pc, calls, last >>

Next == Generate \/ Mutate \/ Seed

Spec == Init /\ [][Next]_vars

\* A mutation with the truncation point kept at the walk length.
Replay ==
    /\ pc = "ready"
    /\ calls < MaxCalls
    /\ \E outcap \in OutCaps, tied \in BOOLEAN :
          \E buf \in {IF tied THEN mem ELSE ZeroMem} :
          \E probe \in {replay(Grammars[grammar], walk, rand_state, buf, outcap,
                               UBDefault)} :
              \E ub \in IF UsesUB(probe) THEN UBChoices ELSE {UBDefault} :
                 Return("replay",
                        IF ub = UBDefault THEN probe
                        ELSE replay(Grammars[grammar], walk, rand_state, buf, outcap, ub),
                        walk.length, outcap, tied)

NextReplay == Generate \/ Replay \/ Seed

SpecReplay == Init /\ [][NextReplay]_vars

(***************************************************************************)
(* A program that may destroy its walk at any point and go on calling.     *)
(* Its grammars have an entry function of each form: dispatching, single   *)
(* rule, no symbols.                                                       *)
(***************************************************************************)
LifeGrammars ==
    { i \in 1..Len(Grammars) : Grammars[i] \in {GrammarAS, GrammarLoop, GrammarEps} }

InitLife ==
    /\ grammar \in LifeGrammars
    /\ \E capacity \in WalkCaps, fill \in 0..MaxGarbage : walk = chameleon_init(capacity, fill)
    /\ heap = {StepsBlock}
    /\ rand_state = CHAMELEON_SEED
    /\ mem = ZeroMem
    /\ pc = "ready"
    /\ calls = 0
    /\ last = NoCall

\* free(walk->steps) takes the block from the heap (free(NULL) does nothing).
Destroy ==
    /\ pc = "ready"
    /\ heap' = heap \ {walk.ptr}
    /\ walk' = chameleon_destroy(walk)
    /\ UNCHANGED << grammar, rand_state, mem, pc, calls, last >>

NextLife == Generate \/ Mutate \/ Seed \/ Destroy

SpecLife == InitLife /\ [][NextLife]_vars

(***************************************************************************)
(* A program with a walk of capacity WideWalkCap and an output buffer of   *)
(* WideOutCap bytes: it generates into the whole buffer and re-seeds.      *)
(***************************************************************************)
WideWalkCap == 8
WideOutCap == 16
WideSeed == 7

WideMem == [i \in 1..WideOutCap |-> 0]

InitWide ==
    /\ grammar \in WideGrammars
    /\ \E fill \in 0..MaxGarbage : walk = chameleon_init(WideWalkCap, fill)
    /\ heap = {StepsBlock}
    /\ rand_state = CHAMELEON_SEED
    /\ mem = WideMem
    /\ pc = "ready"
    /\ calls = 0
    /\ last = NoCall

GenerateWide ==
    /\ pc = "ready"
    /\ calls < MaxCalls
    /\ \E probe \in {chameleon_generate(Grammars[grammar], walk, rand_state, mem,
                                         WideOutCap, UBDefault)} :
           \E ub \in IF UsesUB(probe) THEN UBChoices ELSE {UBDefault} :
              Return("generate",
                     IF ub = UBDefault THEN probe
                     ELSE chameleon_generate(Grammars[grammar], walk, rand_state, mem,
                                             WideOutCap, ub),
                     0, WideOutCap, TRUE)

SeedWide ==
    /\ pc = "ready"
    /\ calls < MaxCalls
    /\ \E new_seed \in 0..WideSeed : rand_state' = chameleon_seed(new_seed)
    /\ UNCHANGED << grammar, walk, heap, mem, pc, calls, last >>

NextWide == GenerateWide \/ SeedWide

SpecWide == InitWide /\ [][NextWide]_vars

(***************************************************************************)
(* Vocabulary of the properties.                                           *)
(***************************************************************************)
\* The last call was a generate or a mutate.
Called == last.op \in {"generate", "mutate"}

Output(n) == SubSeq(mem, 1, n)

\* Greibach normal form: every rule is one terminal followed by non-terminals.
IsGNF(g) ==
    \A n \in 1..Len(g.rules) : \A j \in 1..Len(g.rules[n]) :
        LET rule == g.rules[n][j]
        IN  /\ Len(rule) >= 1
            /\ rule[1].kind # "nonterm"
            /\ \A i \in 2..Len(rule) : rule[i].kind = "nonterm"

\* The value whose native-order bytes are w.
RECURSIVE BytesValue(_)
BytesValue(w) == IF w = << >> THEN 0 ELSE w[1] + (256 * BytesValue(Tail(w)))

\* The bytes w are an instance of the terminal sym.
TerminalMatches(g, sym, w) ==
    IF sym.kind = "bytes" THEN w = sym.bytes
    ELSE \E i \in 1..Len(g.numbersets[sym.id].set) :
            LET range == g.numbersets[sym.id].set[i]
            IN  BytesValue(w) >= range[1] /\ BytesValue(w) <= range[2]

\* The sentential form syms derives exactly the bytes w (leftmost derivation;
\* for a grammar in GNF every expansion puts a terminal in front).
RECURSIVE Derives(_, _, _)
Derives(g, syms, w) ==
    IF syms = << >> THEN w = << >>
    ELSE LET sym == Head(syms)
         IN  IF sym.kind = "nonterm"
             THEN \E j \in 1..Len(g.rules[sym.id]) :
                     Derives(g, g.rules[sym.id][j] \o Tail(syms), w)
             ELSE LET size == SymbolSize(g, sym)
                  IN  /\ Len(w) >= size
                      /\ TerminalMatches(g, sym, SubSeq(w, 1, size))
                      /\ Derives(g, Tail(syms), SubSeq(w, size + 1, Len(w)))

IsSentence(g, w) == Derives(g, << NonTerminal(g.entry) >>, w)

(***************************************************************************)
(* The properties.                                                         *)
(***************************************************************************)

\* C1: for a grammar in GNF, whenever generate or mutate returns a byte
\* count r strictly less than output_capacity, output[0..r) is a sentence of
\* the grammar.  (Violated: a walk that runs out of capacity returns the
\* bytes written so far, fewer than output_capacity, with non-terminals left
\* unexpanded.)
C1_SentenceBelowCapacity ==
    (Called /\ IsGNF(Grammars[grammar]) /\ last.ret >= 0 /\ last.ret < last.outcap)
        => IsSentence(Grammars[grammar], Output(last.ret))

\* C2: every generate or mutate returns at most output_capacity, writes no
\* byte at an offset >= output_capacity, and its remaining-length counter
\* never underflows.  (Violated: a replayed terminal advances the output
\* without a bounds check.)
C2_CapacitySafety ==
    Called => /\ ~ULt(last.outcap, last.ret)
              /\ ~last.oob
              /\ ~last.underflow

\* C3: whenever a terminal does not fit in the remaining output space, the
\* public call returns exactly output_capacity; stated for the calls in which
\* the walk did not run out of capacity as well.  (Violated: the function
\* returns its own remaining length, which is less than output_capacity once
\* an earlier symbol of the rule has used some of it.)
C3_TruncationSignal ==
    (Called /\ last.nofit /\ ~last.exhausted /\ ~last.trap) => last.ret = last.outcap

\* C4: whenever a non-terminal is entered with *step >= capacity, the public
\* call returns output_capacity; stated for the calls in which every
\* terminal fitted.  (Violated: the inner call returns 0 and the outer calls
\* carry on and return the bytes written so far.)
C4_ExhaustionSignal ==
    (Called /\ last.exhausted /\ ~last.nofit /\ ~last.trap) => last.ret = last.outcap

\* C5: after any sequence of generate and mutate calls, a replayed dispatch
\* finds a valid rule index in its step: no mutate reaches the
\* default: __builtin_unreachable() branch.
C5_ValidStepIndices ==
    last.op = "mutate" => ~last.unreachable

AfterGenerate == last.prev_op = "generate" /\ last.prev_complete

\* The bytes [0, n) of the buffer are as the previous call left them.
SameBytes(n) == \A j \in 1..n : mem[j] = last.prev_mem[j]

\* C7 as stated: a replay of a complete generate, into a buffer of the same
\* capacity that may hold anything, returns |O| and leaves O in the buffer.
C7_ReplayAnyBuffer ==
    (last.op = "replay" /\ AfterGenerate /\ last.outcap = last.prev_outcap)
        => (last.ret = last.prev_ret /\ SameBytes(last.prev_ret))

\* C7, amended: a replay of a complete generate, into the buffer that still
\* holds the output O of that generate and with the same capacity, returns
\* |O| and leaves O in the buffer.
C7_ReplayFidelity ==
    (last.op = "replay" /\ AfterGenerate /\ last.tied /\ last.outcap = last.prev_outcap)
        => (last.ret = last.prev_ret /\ SameBytes(last.prev_ret))

\* A replay of a complete generate with at least two bytes of output, over
\* at least two positions, into the buffer that holds the output.
C7_Witness ==
    /\ last.op = "replay" /\ AfterGenerate /\ last.tied /\ last.outcap = last.prev_outcap
    /\ last.prev_ret >= 2
    /\ Len(last.log) >= 2
    /\ \A i \in 1..Len(last.log) : ~last.log[i].fresh

\* The bytes before each entry of position last.k are those of the previous
\* output, at the offset that position had in the previous call.
PrefixKept ==
    \A i \in 1..Len(last.log) :
        last.log[i].s = last.k
            => /\ i <= Len(last.prev_log)
               /\ last.log[i].off = last.prev_log[i].off
               /\ SameBytes(last.log[i].off)

\* C8 as stated: after mutate with truncation point k on a walk produced by
\* a complete generate, the bytes that precede position k are those the
\* original walk emitted up to position k.
C8_PrefixAnyBuffer == (last.op = "mutate" /\ AfterGenerate) => PrefixKept

\* C8, amended: the same, for a mutate that is handed the buffer that still
\* holds the output of the generate.
C8_PrefixStability == (last.op = "mutate" /\ AfterGenerate /\ last.tied) => PrefixKept

\* A mutate of a complete generate in its own buffer and with its capacity,
\* truncated at k >= 1, that reaches position k after at least one byte and
\* chooses it afresh.
C8_Witness ==
    /\ last.op = "mutate" /\ AfterGenerate /\ last.tied
    /\ last.outcap = last.prev_outcap
    /\ last.k >= 1
    /\ \E i \in 1..Len(last.log) :
          last.log[i].s = last.k /\ last.log[i].off >= 1 /\ last.log[i].fresh

\* The truncation points mutate can draw on a walk of length len.
TruncationPoints(len) == { truncation_point(rnd, len) : rnd \in 0..MaxRand }

\* C9 as stated: the truncation point of a mutate lies in 0..L, L the walk
\* length before the call, and every value of 0..L is a possible outcome.
C9_TruncationInclusive ==
    /\ last.op = "mutate" => last.k \in 0..last.pre.length
    /\ (walk.length <= MaxRand) => TruncationPoints(walk.length) = 0..walk.length

\* C9, amended: the truncation point of a mutate lies in 0..L-1 (it is 0 for
\* an empty walk), and every value of that range is a possible outcome.
C9_TruncationRange ==
    /\ last.op = "mutate"
          => last.k \in (IF last.pre.length = 0 THEN {0} ELSE 0..(last.pre.length - 1))
    /\ (walk.length <= MaxRand + 1)
          => TruncationPoints(walk.length)
                = (IF walk.length = 0 THEN {0} ELSE 0..(walk.length - 1))

\* A mutate of a walk of length at least 2 that drew the largest truncation point.
C9_Witness ==
    last.op = "mutate" /\ last.pre.length >= 2 /\ last.k = last.pre.length - 1

\* C10: during mutate with truncation point k, a dispatch at a position
\* s < k uses the rule index stored in steps[s] and leaves it unchanged, a
\* dispatch at a position s >= k draws a new rule index and stores it in
\* steps[s], and steps[0..k) is the same before and after the call.
C10_ReplayThenFresh ==
    last.op = "mutate"
        => /\ \A i \in 1..Len(last.log) :
                 LET e == last.log[i]
                 IN  e.disp
                        => IF e.s < last.k
                           THEN /\ ~e.fresh
                                /\ e.rule = last.pre.steps[e.s + 1]
                                /\ walk.steps[e.s + 1] = last.pre.steps[e.s + 1]
                           ELSE /\ e.fresh
                                /\ walk.steps[e.s + 1] = e.rule
           /\ \A s \in 1..last.k : walk.steps[s] = last.pre.steps[s]

\* A mutate that replays a dispatch below k and chooses one afresh at or
\* above k, storing an index other than the one the step held.
C10_Witness ==
    /\ last.op = "mutate"
    /\ \E i, j \in 1..Len(last.log) :
          /\ last.log[i].disp /\ last.log[i].s < last.k
          /\ last.log[j].disp /\ last.log[j].s >= last.k
          /\ last.log[j].rule # last.pre.steps[last.log[j].s + 1]

\* C11: mutate on a walk of length 0 behaves as generate: from the same
\* PRNG state, walk and buffer, and with the same output capacity, both
\* return the same byte count and leave the same output bytes, steps, length
\* and PRNG state; a mutate of an empty walk replays no position.
C11_MutateEmptyIsGenerate ==
    /\ (pc = "ready" /\ walk.length = 0)
          => \A outcap \in OutCaps, rnd \in 0..MaxRand, tied \in BOOLEAN, ub \in UBChoices :
                chameleon_mutate(Grammars[grammar], walk, rnd, rand_state,
                                 IF tied THEN mem ELSE ZeroMem, outcap, ub)
                   = chameleon_generate(Grammars[grammar], walk, rand_state,
                                        IF tied THEN mem ELSE ZeroMem, outcap, ub)
    /\ (last.op = "mutate" /\ last.pre.length = 0)
          => /\ last.k = 0
             /\ \A i \in 1..Len(last.log) : last.log[i].fresh

\* A mutate of an empty walk that took at least two steps and wrote output.
C11_Witness ==
    /\ last.op = "mutate" /\ last.pre.length = 0
    /\ Len(last.log) >= 2
    /\ last.ret >= 1

\* C12: determinism.  A generate, a re-seed to the PRNG state the generate
\* started from, and a generate with the same output capacity: the second
\* call returns the same value, leaves the same bytes in the output and the
\* same length and steps[0..L) as the first, whatever the walk held before
\* each of them.  (The memory read behind TRIANGULAR_LOOKUP_TABLE and the
\* target of an uncovered switch are those of one build: the same in both.)
C12_Determinism ==
    (/\ last.op = "generate" /\ last.prev_op = "generate"
     /\ last.rs = last.prev_rs
     /\ last.outcap = last.prev_outcap
     /\ last.ub = last.prev_ub)
        => /\ last.ret = last.prev_ret
           /\ mem = last.prev_mem
           /\ walk.length = last.pre.length
           /\ \A i \in 1..walk.length : walk.steps[i] = last.pre.steps[i]

\* Two generates from the same PRNG state and with the same capacity, the
\* second on the walk the first left, each drawing from the PRNG, taking at
\* least two steps and writing output.
C12_Witness ==
    /\ last.op = "generate" /\ last.prev_op = "generate"
    /\ last.rs = last.prev_rs
    /\ last.outcap = last.prev_outcap
    /\ last.ub = last.prev_ub
    /\ rand_state # last.rs
    /\ Len(last.log) >= 2
    /\ last.ret >= 1
    /\ last.pre.length >= 2

\* The number of residues k(k+1)/2 of a triangular draw over k rules.
Residues(k) == (k * (k + 1)) \div 2

\* C13: for a triangular non-terminal with k rules, a draw reduces the PRNG
\* value modulo k(k+1)/2 and maps the residue through the lookup table with
\* weights (k, k-1, ..., 1): of the k(k+1)/2 residues exactly k - i select
\* rule i, so that rule 0 is the most likely one.
C13_TriangularWeights ==
    LET g == Grammars[grammar]
    IN  \A n \in 1..Len(g.rules), ub \in UBChoices :
           g.triangular[n] =>
              LET k == Len(g.rules[n])
                  cx == [g |-> g, ub |-> ub]
              IN  /\ \A r \in 0..((2 * Residues(k)) - 1) :
                        triangular_index(Residues(k), Word(r)) = r % Residues(k)
                  /\ \A i \in 0..(k - 1) :
                        Cardinality({r \in 0..(Residues(k) - 1) :
                                        draw_rule(cx, TRUE, k, Word(r)) = i}) = k - i

\* C14: every generate and mutate call returns, for every grammar, PRNG
\* state and capacity, the grammar that recurses without end included: the
\* invocations that consume a step consume the positions 0, 1, 2, ... in
\* order and are at most walk.capacity many, and the invocation that finds
\* *step >= capacity is the last one of its call chain to run: the walk
\* stays full and no later invocation consumes a step.
C14_Termination ==
    Called =>
       /\ Len(last.log) <= walk.capacity
       /\ walk.length = Len(last.log)
       /\ \A i \in 1..Len(last.log) : last.log[i].s = i - 1
       /\ last.exhausted => walk.length = walk.capacity

\* A call on the grammar S -> 'a' S that ran until the walk was full.
C14_Witness ==
    /\ Called
    /\ Grammars[grammar] = GrammarLoop
    /\ last.exhausted
    /\ walk.capacity >= 2
    /\ Len(last.log) = walk.capacity

\* The number of 'a' bytes among the bytes the last call returned.
NumA == Cardinality({ j \in 1..last.ret : mem[j] = 97 })

\* The last call was a generate on S -> 'a' S | epsilon (in either order of
\* the two rules) with walk capacity 8 and output capacity 16.
GenerateOnAS ==
    /\ last.op = "generate"
    /\ Grammars[grammar] \in {GrammarAS, GrammarSA}
    /\ walk.capacity = WideWalkCap
    /\ last.outcap = WideOutCap

\* C15 as stated: after every such generate the walk length equals the
\* number of 'a' bytes written to the output.
C15_LengthIsCount == GenerateOnAS => walk.length = NumA

\* C15: after every such generate the output is the 'a' bytes alone, and the
\* walk length is their number plus one, the dispatch that chose the empty
\* rule having consumed a step too; only when the walk ran out before the
\* empty rule was chosen does the length equal the number of 'a' bytes, and
\* it is the capacity then.
C15_LengthIsCountPlusOne ==
    GenerateOnAS =>
       /\ last.ret = NumA
       /\ ~last.exhausted => walk.length = NumA + 1
       /\ last.exhausted => walk.length = NumA /\ walk.length = walk.capacity

\* A generate that wrote at least two 'a' bytes and then chose the empty rule.
C15_Witness ==
    /\ GenerateOnAS
    /\ ~last.exhausted
    /\ NumA >= 2
    /\ Grammars[grammar] = GrammarSA

\* C16: for the grammar whose entry non-terminal has the empty rule only, a
\* generate on a walk of capacity >= 1 returns 0, leaves every byte of the
\* output as it was and leaves the walk length at exactly 1.
C16_EmptyGrammar ==
    (/\ last.op = "generate"
     /\ Grammars[grammar] = GrammarEps
     /\ walk.capacity >= 1)
        => /\ last.ret = 0
           /\ mem = last.prev_mem
           /\ walk.length = 1

\* A second generate on the empty grammar, on the walk of length 1 that the
\* first one left, with room in the walk for another step.
C16_Witness ==
    /\ last.op = "generate" /\ last.prev_op = "generate"
    /\ Grammars[grammar] = GrammarEps
    /\ walk.capacity >= 2
    /\ last.pre.length = 1
    /\ last.outcap >= 1

\* C17: generate and mutate change neither the walk's pointer to its step
\* storage nor its capacity, and neither allocate nor release: after every
\* call the pointer and the capacity are those of before the call, the block
\* of steps has its capacity many slots, and the heap holds the block that
\* chameleon_init allocated and nothing else.  Of the walk a call changes
\* length and the contents of steps[0..capacity) only.
C17_WalkFrame ==
    /\ heap = {StepsBlock}
    /\ Called =>
          /\ walk.ptr = last.pre.ptr
          /\ walk.capacity = last.pre.capacity
          /\ DOMAIN walk.steps = 1..walk.capacity
          /\ DOMAIN walk = DOMAIN last.pre

\* A second call that changed both the length and the stored steps.
C17_Witness ==
    /\ Called
    /\ last.prev_op # "init"
    /\ walk.length # last.pre.length
    /\ walk.steps # last.pre.steps

\* The buffer the last call was handed, as it was before the call.
BufferBefore == IF last.tied THEN last.prev_mem ELSE ZeroMem

\* The entries of the last call's log made by a dispatching function whose
\* selected rule begins with a byte literal.
LiteralEntries ==
    { i \in 1..Len(last.log) :
         LET e == last.log[i]
             set == Grammars[grammar].rules[e.nt]
         IN  /\ e.disp
             /\ e.rule >= 0 /\ e.rule < Len(set)
             /\ set[e.rule + 1] # << >>
             /\ set[e.rule + 1][1].kind = "bytes" }

\* The byte literal that log entry i's rule begins with.
Literal(i) == Grammars[grammar].rules[last.log[i].nt][last.log[i].rule + 1][1].bytes

\* The bytes of the buffer where log entry i's literal belongs are those of b.
LiteralBytesAre(i, b) ==
    \A j \in 1..Len(Literal(i)) :
       (last.log[i].off + j) \in DOMAIN mem => mem[last.log[i].off + j] = b[j]

\* The bytes of the buffer where log entry i's literal belongs are as they
\* were before the call.
LiteralBytesKept(i) ==
    \A j \in 1..Len(Literal(i)) :
       (last.log[i].off + j) \in DOMAIN mem
          => mem[last.log[i].off + j] = BufferBefore[last.log[i].off + j]

\* C18 as stated: in a dispatching function the byte literal of the selected
\* rule is written to the output when the position is freshly chosen and
\* when it is replayed alike.
C18_LiteralAlwaysWritten ==
    (last.op = "mutate" /\ ~last.nofit)
       => \A i \in LiteralEntries : LiteralBytesAre(i, Literal(i))

\* C18: in a dispatching function the byte literal of the selected rule is
\* written to the output when the position is freshly chosen (and the
\* literal fits); when the position is replayed the literal is not written,
\* the bytes at its place stay what the buffer held, and only the output
\* cursor moves past them.
C18_LiteralWrittenWhenFresh ==
    last.op = "mutate"
       => \A i \in LiteralEntries :
             /\ (last.log[i].fresh /\ ~last.nofit) => LiteralBytesAre(i, Literal(i))
             /\ ~last.log[i].fresh => LiteralBytesKept(i)

\* A mutate into a buffer that did not hold the walk's output, which replayed
\* a byte literal, leaving its place as it was, and wrote another afresh.
C18_Witness ==
    /\ last.op = "mutate" /\ ~last.tied /\ ~last.nofit
    /\ \E i, j \in LiteralEntries :
          /\ ~last.log[i].fresh /\ ~LiteralBytesAre(i, Literal(i))
          /\ last.log[j].fresh /\ ~LiteralBytesKept(j)

\* The function of non-terminal n entered on the current walk, buffer and
\* PRNG state with *step = from.
EnteredAt(n, from, length, olen) ==
    mutate_nonterm([g |-> Grammars[grammar], length |-> length,
                    capacity |-> walk.capacity, outcap |-> olen, ub |-> UBDefault],
                   n, call_state(walk, from, rand_state, mem, UBDefault), 0, olen)

MaxDraw == 64

\* v lies in one of the inclusive ranges of number set ns.
InNumberset(ns, v) ==
    \E i \in 1..Len(ns.set) :
       \/ range_modulus(ns.set[i]) = 0
       \/ ns.set[i][1] <= v /\ v <= ns.set[i][2]

\* Every value of every range of ns is drawn from some PRNG state.
AllProducible(ns) ==
    \A i \in 1..Len(ns.set) :
       \A v \in (ns.set[i][1])..(ns.set[i][2]) :
          \E r \in 1..MaxDraw :
             numberset_draw([ub |-> UBDefault], ns, Word(r)).value = v

\* C20: for every number set, of one range or of several, and every PRNG
\* output, the value _numberset_<id> produces lies in one of the set's
\* inclusive ranges, every value of every range is produced, and no draw
\* takes a remainder modulo 0, the range that spans the whole 64-bit domain
\* included.
C20_NumbersetDraw ==
    /\ \A i \in 1..Len(Grammars[grammar].numbersets) :
          AllProducible(Grammars[grammar].numbersets[i])
    /\ Called =>
          /\ \A i \in 1..Len(last.drawn) :
                InNumberset(Grammars[grammar].numbersets[last.drawn[i].id],
                            last.drawn[i].value)
          /\ ~last.divzero

\* C21: for every triangular non-terminal with k rules and every PRNG
\* output, the index that TRIANGULAR_RANDOM(k(k+1)/2) reads the lookup table
\* at lies within the table's entries and the rule index read is in [0, k):
\* no call reads past the table, and every freshly chosen dispatch of a
\* triangular non-terminal stores a rule index that its switch has a case for.
C21_TriangularIndexInTable ==
    LET g == Grammars[grammar]
    IN  /\ \A n \in 1..Len(g.rules), r \in 0..MaxDraw :
              g.triangular[n] =>
                 triangular_index(Residues(Len(g.rules[n])), Word(r))
                    < Len(TRIANGULAR_LOOKUP_TABLE(g))
        /\ Called =>
              /\ ~last.tableoob
              /\ \A i \in 1..Len(last.log) :
                    (/\ last.log[i].disp
                     /\ last.log[i].fresh
                     /\ g.triangular[last.log[i].nt])
                       => /\ last.log[i].rule >= 0
                          /\ last.log[i].rule < Len(g.rules[last.log[i].nt])

\* The positions s at which the last call read steps[s] (a replayed
\* dispatch) or wrote it (a freshly chosen one).
StepsAccessed == { last.log[i].s : i \in { j \in 1..Len(last.log) : last.log[j].disp } }

\* C22: in any sequence of generate and mutate calls on an initialised walk
\* every read and every write of steps[s] has s < capacity: the step storage
\* is accessed within the capacity slots that chameleon_init allocated, and
\* the block keeps that many slots.
C22_StepsAccessInBounds ==
    /\ DOMAIN walk.steps = 1..walk.capacity
    /\ Called =>
          /\ walk.capacity = last.pre.capacity
          /\ \A s \in StepsAccessed : s >= 0 /\ s < walk.capacity

\* A mutate that read the steps of replayed dispatches and wrote the step of
\* a fresh one into the last slot of the walk.
C22_Witness ==
    /\ last.op = "mutate"
    /\ walk.capacity >= 2
    /\ \E i, j \in 1..Len(last.log) :
          /\ last.log[i].disp /\ ~last.log[i].fresh
          /\ last.log[j].disp /\ last.log[j].fresh
          /\ last.log[j].s = walk.capacity - 1

=============================================================================
